---- MODULE Spec2Model ----
(***************************************************************************)
(* Model of sphere.py: the NIST SPHERE header codec, the write stream      *)
(* (Sphere_write) and the read stream (Sphere_read).                       *)
(*                                                                         *)
(* Bytes are one-character strings, a byte string is a sequence of them.   *)
(* A header value is a record [t, n, s]: t is "i" (int), "r" (float) or    *)
(* "s" (str); n holds the integer, or the float in tenths; s the string.   *)
(* A parameter mapping (a Python dict) is a sequence of [name, val]        *)
(* records with unique names, in insertion order.                          *)
(***************************************************************************)
EXTENDS Integers, Sequences, FiniteSets, TLC

\* ------------------------------------------------------------------ bounds
MaxSetParams == 2
MaxWrites == 2
MaxCloses == 2
MaxBuf == 2
MaxInitPos == 1
MaxReads == 1
MaxReadCloses == 2
MaxCalls == 4
MaxPos == 3
MaxFrames == 3

\* --------------------------------------------------------------- constants
HeaderSize == 1024
byteorder == "little"

Magic == <<"N", "I", "S", "T", "_", "1", "A", "\n">>
SizeField == <<" ", " ", " ", "1", "0", "2", "4", "\n">>
EndHead == <<"e", "n", "d", "_", "h", "e", "a", "d">>
Trailer == EndHead \o <<"\n", "\n", "\n", "\n", "\n">>

channel_count == <<"c", "h", "a", "n", "n", "e", "l", "_", "c", "o", "u", "n", "t">>
sample_n_bytes == <<"s", "a", "m", "p", "l", "e", "_", "n", "_", "b", "y", "t", "e", "s">>
sample_rate == <<"s", "a", "m", "p", "l", "e", "_", "r", "a", "t", "e">>
sample_count == <<"s", "a", "m", "p", "l", "e", "_", "c", "o", "u", "n", "t">>
sample_coding == <<"s", "a", "m", "p", "l", "e", "_", "c", "o", "d", "i", "n", "g">>
pcm == <<"p", "c", "m">>
ulaw == <<"u", "l", "a", "w">>

Digits == <<"0", "1", "2", "3", "4", "5", "6", "7", "8", "9">>
Whitespace == {" ", "\n", "\t", "\r"}

\* ------------------------------------------------------------ value kinds
IntVal(n) == [t |-> "i", n |-> n, s |-> <<>>]
RealVal(tenths) == [t |-> "r", n |-> tenths, s |-> <<>>]
StrVal(s) == [t |-> "s", n |-> 0, s |-> s]
Field(name, val) == [name |-> name, val |-> val]

Abs(n) == IF n < 0 THEN -n ELSE n
Max(a, b) == IF a > b THEN a ELSE b
Min(a, b) == IF a < b THEN a ELSE b
Repeat(c, n) == [i \in 1..Max(n, 0) |-> c]

\* ---------------------------------------------------- dict (ordered mapping)
Has(info, name) == \E i \in 1..Len(info) : info[i].name = name
IndexOf(info, name) == CHOOSE i \in 1..Len(info) : info[i].name = name
Get(info, name) == info[IndexOf(info, name)].val

\* Put dropping an existing key and adding it again at the end
Put_MoveToEnd(info, name, val) ==
    Append(SelectSeq(info, LAMBDA f : f.name # name), Field(name, val))

\* d[name] = val: an existing key keeps its position, a new key goes last
Put(info, name, val) ==
    IF Has(info, name)
    THEN [info EXCEPT ![IndexOf(info, name)].val = val]
    ELSE Append(info, Field(name, val))

RECURSIVE DictUpdate(_, _)
DictUpdate(info, params) ==
    IF params = <<>> THEN info
    ELSE DictUpdate(Put(info, Head(params).name, Head(params).val), Tail(params))

SetDefault(info, name, val) == IF Has(info, name) THEN info ELSE Put(info, name, val)

\* dict equality: same keys, same values, whatever the order
SameMapping(a, b) ==
    /\ Len(a) = Len(b)
    /\ \A i \in 1..Len(a) : Has(b, a[i].name) /\ Get(b, a[i].name) = a[i].val

\* --------------------------------------------------------- text formatting
RECURSIVE NatToStr(_)
NatToStr(n) ==
    IF n < 10 THEN <<Digits[n + 1]>>
    ELSE NatToStr(n \div 10) \o <<Digits[(n % 10) + 1]>>

FormatInt(n) == IF n < 0 THEN <<"-">> \o NatToStr(-n) ELSE NatToStr(n)

\* repr of a float with one fractional digit, held in tenths
FormatReal(tenths) ==
    (IF tenths < 0 THEN <<"-">> ELSE <<>>)
        \o NatToStr(Abs(tenths) \div 10) \o <<".">> \o <<Digits[(Abs(tenths) % 10) + 1]>>

\* EncodeField writing a Real under the Integer flag
EncodeField_RealAsInteger(name, val) ==
    CASE val.t \in {"i", "r"} ->
             name \o <<" ", "-", "i", " ">>
                 \o (IF val.t = "i" THEN FormatInt(val.n) ELSE FormatReal(val.n)) \o <<"\n">>
      [] val.t = "s" -> name \o <<" ", "-", "s">> \o NatToStr(Len(val.s))
                             \o <<" ">> \o val.s \o <<"\n">>

\* one header line of _write_header
EncodeField(name, val) ==
    CASE val.t = "i" -> name \o <<" ", "-", "i", " ">> \o FormatInt(val.n) \o <<"\n">>
      [] val.t = "r" -> name \o <<" ", "-", "r", " ">> \o FormatReal(val.n) \o <<"\n">>
      [] val.t = "s" -> name \o <<" ", "-", "s">> \o NatToStr(Len(val.s))
                             \o <<" ">> \o val.s \o <<"\n">>

\* ------------------------------------------------------ the file handle
\* A byte of a gap left by a write beyond the end of the file
NUL == "NUL"

IO(op, at, n) == [op |-> op, at |-> at, n |-> n]

\* file.write(data) at position pos of content
WriteAt(content, pos, data) ==
    LET base == content \o Repeat(NUL, pos - Len(content))
    IN SubSeq(base, 1, pos) \o data \o SubSeq(base, pos + Len(data) + 1, Len(base))

\* A machine m is [self, fp, log, err]: the stream object, the file handle
\* [content, pos, closed], the I/O calls made so far by the running method and
\* the exception it has raised ("none" while it runs normally).  Every step
\* passes a machine that has raised through unchanged.
Raise(m, e) == IF m.err = "none" THEN [m EXCEPT !.err = e] ELSE m

\* self._file.write(data); self._file is None once the stream is closed
fwrite(m, data) ==
    IF m.err # "none" THEN m
    ELSE IF ~m.self.file THEN Raise(m, "AttributeError")
    ELSE [m EXCEPT !.fp.content = WriteAt(m.fp.content, m.fp.pos, data),
                   !.fp.pos = m.fp.pos + Len(data),
                   !.log = Append(m.log, IO("write", m.fp.pos, Len(data)))]

\* self._file.tell()
ftell(m) ==
    IF m.err # "none" THEN m
    ELSE IF ~m.self.file THEN Raise(m, "AttributeError")
    ELSE [m EXCEPT !.log = Append(m.log, IO("tell", m.fp.pos, 0))]

\* self._file.seek(pos, 0)
fseek(m, pos) ==
    IF m.err # "none" THEN m
    ELSE IF ~m.self.file THEN Raise(m, "AttributeError")
    ELSE [m EXCEPT !.fp.pos = pos, !.log = Append(m.log, IO("seek", pos, 0))]

\* self._file.flush()
fflush(m) ==
    IF m.err # "none" THEN m
    ELSE IF ~m.self.file THEN Raise(m, "AttributeError")
    ELSE [m EXCEPT !.log = Append(m.log, IO("flush", m.fp.pos, 0))]

\* ---------------------------------------------------------- Sphere_write
IntOf(info, name) == Get(info, name).n

\* channel_count * sample_n_bytes
FrameSize(info) == IntOf(info, channel_count) * IntOf(info, sample_n_bytes)

\* self._headinfo.get('sample_coding', 'pcm') in ('pcm', 'ulaw')
\*     and 'sample_rate' not in self._headinfo
RateMissing(info) ==
    /\ (IF Has(info, sample_coding) THEN Get(info, sample_coding) ELSE StrVal(pcm))
           \in {StrVal(pcm), StrVal(ulaw)}
    /\ ~Has(info, sample_rate)

\* no write stream was made
NoWriter ==
    [file |-> FALSE, i_opened |-> FALSE, headinfo |-> <<>>, nframeswritten |-> 0,
     datawritten |-> 0, datalength |-> 0, headerwritten |-> FALSE]

\* Sphere_write.initfp
NewWriter(opened) ==
    [file |-> TRUE, i_opened |-> opened, headinfo |-> <<>>, nframeswritten |-> 0,
     datawritten |-> 0, datalength |-> 0, headerwritten |-> FALSE]

RECURSIVE WriteFields(_, _, _)
WriteFields(m, info, i) ==
    IF i > Len(info) THEN m
    ELSE WriteFields(fwrite(m, EncodeField(info[i].name, info[i].val)), info, i + 1)

\* the mapping after "if 'sample_count' not in self._headinfo: ..."
WithSampleCount(info, initlength) ==
    IF Has(info, sample_count) THEN info
    ELSE Put(info, sample_count, IntVal(initlength \div FrameSize(info)))

\* _write_header taking the declared data length for 0
SetDataLength_Undeclared(m, info) ==
    IF m.err # "none" THEN m
    ELSE [m EXCEPT !.self.headinfo = info, !.self.datalength = 0]

\* self._datalength = sample_count * channel_count * sample_n_bytes
SetDataLength(m, info) ==
    IF m.err # "none" THEN m
    ELSE [m EXCEPT !.self.headinfo = info,
                   !.self.datalength = IntOf(info, sample_count)
                                         * IntOf(info, channel_count)
                                         * IntOf(info, sample_n_bytes)]

\* curpos = self._file.tell(); self._file.write(b' ' * (1024 - curpos))
PadHeader(m) == fwrite(m, Repeat(" ", HeaderSize - m.fp.pos))

\* _write_header from the sample_count test on, info being the mapping it leaves
WriteHeaderBody(m, info) ==
    PadHeader(ftell(fwrite(WriteFields(SetDataLength(m, info), info, 1), Trailer)))

\* self._headerwritten = True
MarkHeaderWritten(m) ==
    IF m.err # "none" THEN m ELSE [m EXCEPT !.self.headerwritten = TRUE]

_write_header(m, initlength) ==
    MarkHeaderWritten(WriteHeaderBody(fwrite(m, Magic \o SizeField),
                                      WithSampleCount(m.self.headinfo, initlength)))

\* _ensure_header_written starting the header before it tests the parameters
_ensure_header_written_unchecked(m, datasize) ==
    IF m.err # "none" \/ m.self.headerwritten THEN m
    ELSE IF ~Has(m.self.headinfo, channel_count)
    THEN Raise(fwrite(m, Magic \o SizeField), "Error: # channels not specified")
    ELSE IF ~Has(m.self.headinfo, sample_n_bytes)
    THEN Raise(fwrite(m, Magic \o SizeField), "Error: # sample bytes not specified")
    ELSE IF RateMissing(m.self.headinfo)
    THEN Raise(fwrite(m, Magic \o SizeField), "Error: sampling rate not specified")
    ELSE _write_header(m, datasize)

_ensure_header_written(m, datasize) ==
    IF m.err # "none" \/ m.self.headerwritten THEN m
    ELSE IF ~Has(m.self.headinfo, channel_count) THEN Raise(m, "Error: # channels not specified")
    ELSE IF ~Has(m.self.headinfo, sample_n_bytes) THEN Raise(m, "Error: # sample bytes not specified")
    ELSE IF RateMissing(m.self.headinfo) THEN Raise(m, "Error: sampling rate not specified")
    ELSE _write_header(m, datasize)

\* self._datalength = self._datawritten, the last line of _patchheader
SetPatched(m, written) ==
    IF m.err # "none" THEN m ELSE [m EXCEPT !.self.datalength = written]

_patchheader(m) ==
    IF m.err # "none" \/ m.self.datawritten = m.self.datalength THEN m
    ELSE SetPatched(fseek(_write_header(fseek(ftell(m), 0), m.self.datawritten), m.fp.pos),
                    m.self.datawritten)

\* self._datawritten += len(data); self._nframeswritten += nframes
CountData(m, data) ==
    IF m.err # "none" THEN m
    ELSE [m EXCEPT !.self.datawritten = @ + Len(data),
                   !.self.nframeswritten = @ + Len(data) \div FrameSize(m.self.headinfo)]

\* the lines of writeframesraw after _ensure_header_written
WriteData(m, data) ==
    IF m.err # "none" THEN m
    ELSE IF IntOf(m.self.headinfo, sample_n_bytes) # 1 /\ byteorder = "big"
    THEN Raise(m, "AttributeError")
    ELSE CountData(fwrite(m, data), data)

writeframesraw(m, data) ==
    WriteData(_ensure_header_written(
                  [m EXCEPT !.self.headinfo =
                       SetDefault(@, sample_count, IntVal(m.self.datalength))],
                  Len(data)),
              data)

\* "if self._datalength != self._datawritten: self._patchheader()"
PatchIfNeeded(m) ==
    IF m.err = "none" /\ m.self.datalength # m.self.datawritten
    THEN _patchheader(m) ELSE m

\* wave.Wave_write.writeframes
writeframes(m, data) == PatchIfNeeded(writeframesraw(m, data))

\* the finally clause of wave.Wave_write.close
CloseFinally(m) ==
    IF m.self.i_opened
    THEN [m EXCEPT !.self.file = FALSE, !.self.i_opened = FALSE, !.fp.closed = @ + 1,
                   !.log = Append(@, IO("close", m.fp.pos, 0))]
    ELSE [m EXCEPT !.self.file = FALSE]

\* close running its try block whether or not the stream still holds its file
close_unguarded(m) ==
    CloseFinally(fflush(PatchIfNeeded(_ensure_header_written(m, 0))))

\* wave.Wave_write.close
close(m) ==
    CloseFinally(IF m.self.file
                 THEN fflush(PatchIfNeeded(_ensure_header_written(m, 0)))
                 ELSE m)

\* Sphere_write.tell
wtell(self) == self.nframeswritten

\* setparams refusing once the header is written
setparams_after_header(m, params) ==
    IF m.self.headerwritten
    THEN Raise(m, "Error: cannot change parameters after starting to write")
    ELSE [m EXCEPT !.self.headinfo = DictUpdate(@, params)]

setparams(m, params) ==
    IF m.self.datawritten # 0
    THEN Raise(m, "Error: cannot change parameters after starting to write")
    ELSE [m EXCEPT !.self.headinfo = DictUpdate(@, params)]

\* Sphere_write.getparams: [err, val]
getparams(self) ==
    IF \A key \in {sample_n_bytes, channel_count} : ~Has(self.headinfo, key)
    THEN [err |-> "Error: not all parameters set", val |-> <<>>]
    ELSE IF ~Has(self.headinfo, sample_n_bytes) /\ ~Has(self.headinfo, channel_count)
    THEN [err |-> "Error: not all parameters set", val |-> <<>>]
    ELSE IF RateMissing(self.headinfo)
    THEN [err |-> "Error: not all parameters set", val |-> <<>>]
    ELSE [err |-> "none", val |-> self.headinfo]

\* ----------------------------------------------------------- text parsing
IsDigit(c) == \E d \in 1..10 : Digits[d] = c
DigitVal(c) == (CHOOSE d \in 1..10 : Digits[d] = c) - 1

RECURSIVE StrToNat(_)
StrToNat(ds) ==
    IF ds = <<>> THEN 0
    ELSE StrToNat(SubSeq(ds, 1, Len(ds) - 1)) * 10 + DigitVal(ds[Len(ds)])

AllDigits(ds) == Len(ds) > 0 /\ \A i \in 1..Len(ds) : IsDigit(ds[i])

\* s.strip() and s.rstrip()
Solid(s) == {i \in 1..Len(s) : s[i] \notin Whitespace}
SetMin(S) == CHOOSE x \in S : \A y \in S : x <= y
SetMax(S) == CHOOSE x \in S : \A y \in S : x >= y
StripTo(s, solid) == IF solid = {} THEN <<>> ELSE SubSeq(s, SetMin(solid), SetMax(solid))
RStripTo(s, solid) == IF solid = {} THEN <<>> ELSE SubSeq(s, 1, SetMax(solid))
PyStrip(s) == StripTo(s, Solid(s))
PyRStrip(s) == RStripTo(s, Solid(s))

\* the sign of a stripped numeric literal and the literal without it
IsSigned(t) == Len(t) > 0 /\ t[1] \in {"-", "+"}
SignOf(t) == IF Len(t) > 0 /\ t[1] = "-" THEN -1 ELSE 1
Unsigned(t) == IF IsSigned(t) THEN Tail(t) ELSE t

IntOfDigits(sign, ds) ==
    IF AllDigits(ds) THEN [ok |-> TRUE, v |-> sign * StrToNat(ds)]
    ELSE [ok |-> FALSE, v |-> 0]

IntOfStripped(t) == IntOfDigits(SignOf(t), Unsigned(t))

\* int(s): [ok, v]; not ok is a ValueError
PyInt(s) == IntOfStripped(PyStrip(s))

FloatOfParts(sign, ip, fr) ==
    IF /\ Len(ip) + Len(fr) > 0
       /\ \A i \in 1..Len(ip) : IsDigit(ip[i])
       /\ \A i \in 1..Len(fr) : IsDigit(fr[i])
    THEN [ok |-> TRUE,
          v |-> sign * (StrToNat(ip) * 10 + (IF fr = <<>> THEN 0 ELSE DigitVal(fr[1])))]
    ELSE [ok |-> FALSE, v |-> 0]

FloatOfBody(sign, body, dots) ==
    IF dots = {} THEN FloatOfParts(sign, body, <<>>)
    ELSE FloatOfParts(sign, SubSeq(body, 1, SetMin(dots) - 1),
                      SubSeq(body, SetMin(dots) + 1, Len(body)))

FloatOfUnsigned(sign, body) ==
    FloatOfBody(sign, body, {i \in 1..Len(body) : body[i] = "."})

FloatOfStripped(t) == FloatOfUnsigned(SignOf(t), Unsigned(t))

\* float(s), in tenths: [ok, v]; not ok is a ValueError.  Literals are
\* decimal, with or without a point; the value keeps the first fractional digit.
PyFloat(s) == FloatOfStripped(PyStrip(s))

StartsWith(s, p) == Len(s) >= Len(p) /\ SubSeq(s, 1, Len(p)) = p

\* s.lstrip(chars)
PyLStrip(s, chars) ==
    LET keep == {i \in 1..Len(s) : s[i] \notin chars}
    IN IF keep = {} THEN <<>> ELSE SubSeq(s, SetMin(keep), Len(s))

\* value[:n]
PySlice(s, n) == IF n >= 0 THEN SubSeq(s, 1, Min(n, Len(s))) ELSE SubSeq(s, 1, Max(Len(s) + n, 0))

\* A header line decoded, or the exception that decoding it raises
Decoded(name, val) == [err |-> "none", name |-> name, val |-> val]
Undecodable(e) == [err |-> e, name |-> <<>>, val |-> IntVal(0)]

IntegerField(name, parsed) ==
    IF parsed.ok THEN Decoded(name, IntVal(parsed.v)) ELSE Undecodable("ValueError")

RealField(name, parsed) ==
    IF parsed.ok THEN Decoded(name, RealVal(parsed.v)) ELSE Undecodable("ValueError")

StringField(name, n_str, field_value) ==
    IF n_str.ok THEN Decoded(name, StrVal(PySlice(field_value, n_str.v)))
    ELSE Undecodable("ValueError")

\* the if/elif chain on field_type
DecodeField(field_name, field_type, field_value) ==
    IF StartsWith(field_type, <<"-", "i">>)
    THEN IntegerField(field_name, PyInt(field_value))
    ELSE IF StartsWith(field_type, <<"-", "r">>)
    THEN RealField(field_name, PyFloat(field_value))
    ELSE IF StartsWith(field_type, <<"-", "s">>)
    THEN StringField(field_name, PyInt(PyLStrip(field_type, {"-", "s"})), field_value)
    ELSE Undecodable("TypeError")

\* triple.split(' ', 2) at the spaces s1 < s2, then field_value.rstrip()
SplitAt(triple, s1, s2) ==
    DecodeField(SubSeq(triple, 1, s1 - 1), SubSeq(triple, s1 + 1, s2 - 1),
                PyRStrip(SubSeq(triple, s2 + 1, Len(triple))))

SplitTriple(triple, sp) ==
    IF Cardinality(sp) < 2 THEN Undecodable("ValueError")
    ELSE SplitAt(triple, SetMin(sp), SetMin(sp \ {SetMin(sp)}))

DecodeTriple(triple) == SplitTriple(triple, {i \in 1..Len(triple) : triple[i] = " "})

\* line.split(';', 1)[0]
BeforeComment(line, semis) ==
    IF semis = {} THEN line ELSE SubSeq(line, 1, SetMin(semis) - 1)

\* One header line that is not end_head (the body of the loop of initfp):
\* [err, name, val]
DecodeLine(line) ==
    DecodeTriple(BeforeComment(line, {i \in 1..Len(line) : line[i] = ";"}))

\* The index of the first line break of block at or after start, Len(block) + 1
\* if there is none
FirstOf(hits, none) == IF hits = {} THEN none ELSE SetMin(hits)

LineEnd(block, start) ==
    FirstOf({i \in start..Len(block) : block[i] = "\n" \/ block[i] = "\r"},
            Len(block) + 1)

\* the next line of block.splitlines() from index start: [line, next]
LineTo(block, start, e) ==
    [line |-> SubSeq(block, start, e - 1),
     next |-> IF e < Len(block) /\ block[e] = "\r" /\ block[e + 1] = "\n"
              THEN e + 2 ELSE e + 1]

NextLine(block, start) == LineTo(block, start, LineEnd(block, start))

\* the for loop of initfp over the lines from index start: [err, headinfo]
RECURSIVE ParseLines(_, _, _)
RECURSIVE ParseLine(_, _, _)
RECURSIVE StoreField(_, _, _, _)
ParseLines(block, start, info) ==
    IF start > Len(block) THEN [err |-> "Error: header chunk missing", headinfo |-> info]
    ELSE ParseLine(block, NextLine(block, start), info)

ParseLine(block, nl, info) ==
    IF nl.line = EndHead THEN [err |-> "none", headinfo |-> info]
    ELSE StoreField(block, nl.next, info, DecodeLine(nl.line))

StoreField(block, next, info, d) ==
    IF d.err # "none" THEN [err |-> d.err, headinfo |-> info]
    ELSE ParseLines(block, next, Put(info, d.name, d.val))

\* file.read(n) from position pos: the bytes read
ReadAt(content, pos, n) ==
    IF n < 0 THEN SubSeq(content, pos + 1, Len(content))
    ELSE SubSeq(content, pos + 1, Min(pos + n, Len(content)))

\* ------------------------------------------------------------ Sphere_read
\* The reader's machine is [self, fp, log, err, data].
fread(m, n) ==
    IF m.err # "none" THEN m
    ELSE IF ~m.self.file THEN Raise(m, "AttributeError")
    ELSE LET got == ReadAt(m.fp.content, m.fp.pos, n)
         IN [m EXCEPT !.data = got, !.fp.pos = m.fp.pos + Len(got),
                      !.log = Append(m.log, IO("read", m.fp.pos, Len(got)))]

\* self._file.seek(off, 1)
fseekrel(m, off) ==
    IF m.err # "none" THEN m
    ELSE IF ~m.self.file THEN Raise(m, "AttributeError")
    ELSE [m EXCEPT !.fp.pos = m.fp.pos + off,
                   !.log = Append(m.log, IO("seek", m.fp.pos + off, 1))]

NoReader ==
    [file |-> FALSE, i_opened |-> FALSE, headinfo |-> <<>>, soundpos |-> 0,
     data_seek_needed |-> 0, offset |-> 0, framesize |-> 0]

\* "if self._file.read(8) != b'NIST_1A\n': raise Error(...)"
CheckMagic(m) ==
    IF m.err # "none" THEN m
    ELSE IF m.data # Magic THEN Raise(m, "Error: file does not start with NIST_1A id")
    ELSE m

\* headsize = int(...); self._file.read(headsize - 16)
ReadBlock(m, headsize) ==
    IF m.err # "none" THEN m
    ELSE IF ~headsize.ok THEN Raise(m, "ValueError")
    ELSE fread(m, headsize.v - 16)

ReadHeader(m) == ReadBlock(m, PyInt(m.data))

\* the end_head branch once self._offset is set
SetFrameSize(m) ==
    IF m.err # "none" THEN m
    ELSE IF ~Has(m.self.headinfo, channel_count) \/ ~Has(m.self.headinfo, sample_n_bytes)
    THEN Raise(m, "KeyError")
    ELSE [m EXCEPT !.self.framesize = FrameSize(m.self.headinfo)]

\* self._data_seek_needed = 0; self._offset = self._file.tell()
SetOffset(m) ==
    IF m.err # "none" THEN m
    ELSE [m EXCEPT !.self.data_seek_needed = 0, !.self.offset = m.fp.pos]

\* the outcome of the for loop over the header lines
StoreHeader(m, parsed) ==
    IF m.err # "none" THEN m
    ELSE IF parsed.err # "none"
    THEN Raise([m EXCEPT !.self.headinfo = parsed.headinfo], parsed.err)
    ELSE SetFrameSize(SetOffset(ftell([m EXCEPT !.self.headinfo = parsed.headinfo])))

ParseHeader(m) == StoreHeader(m, ParseLines(m.data, 1, <<>>))

\* Sphere_read.initfp
initfp(m) ==
    ParseHeader(ReadHeader(fread(CheckMagic(
        fread([m EXCEPT !.self.soundpos = 0, !.self.file = TRUE], 8)), 8)))

\* a constructor whose except clause leaves the file it opened open
CloseOnError_Leaking(m, opened) == m

\* the except clause of Sphere_read.__init__
CloseOnError(m, opened) ==
    IF m.err # "none" /\ opened
    THEN [m EXCEPT !.fp.closed = @ + 1, !.log = Append(@, IO("close", m.fp.pos, 0))]
    ELSE m

\* Sphere_read.__init__(f): opened says that f was a path
NewReader(fp, opened) ==
    CloseOnError(initfp([self |-> [NoReader EXCEPT !.i_opened = opened], fp |-> fp,
                         log |-> <<>>, err |-> "none", data |-> <<>>]),
                 opened)

\* readframes seeking whether or not a seek is needed
SeekData_Unflagged(m, pos) ==
    IF pos = 0 THEN fseek(m, m.self.offset)
    ELSE fseekrel(fseek(m, m.self.offset), pos)

\* "if self._data_seek_needed: ..." of readframes
SeekData(m, pos) ==
    IF m.self.data_seek_needed = 0 THEN m
    ELSE IF pos = 0 THEN fseek(m, m.self.offset)
    ELSE fseekrel(fseek(m, m.self.offset), pos)

ClearSeekNeeded(m) ==
    IF m.err # "none" THEN m ELSE [m EXCEPT !.self.data_seek_needed = 0]

\* the lines of readframes after data = self._file.read(...)
CountRead(m) ==
    IF m.err # "none" THEN [m EXCEPT !.data = <<>>]
    ELSE IF IntOf(m.self.headinfo, sample_n_bytes) # 1 /\ byteorder = "big"
    THEN Raise([m EXCEPT !.data = <<>>], "AttributeError")
    ELSE IF m.self.framesize = 0 THEN Raise([m EXCEPT !.data = <<>>], "ZeroDivisionError")
    ELSE [m EXCEPT !.self.soundpos = @ + Len(m.data) \div m.self.framesize]

ReadData(m, nframes) ==
    IF m.err # "none" \/ nframes = 0 THEN [m EXCEPT !.data = <<>>]
    ELSE CountRead(fread(m, nframes * m.self.framesize))

\* Sphere_read.readframes
readframes(m, nframes) ==
    ReadData(ClearSeekNeeded(SeekData(m, m.self.soundpos * m.self.framesize)), nframes)

\* pos > self._headinfo['sample_count']: a str there cannot be compared
ExceedsCount(pos, count) ==
    IF count.t = "r" THEN pos * 10 > count.n ELSE pos > count.n

\* setpos without the upper limit
setpos_unbounded(m, pos) ==
    IF pos < 0 THEN Raise(m, "Error: position not in range")
    ELSE [m EXCEPT !.self.soundpos = pos, !.self.data_seek_needed = 1]

\* Sphere_read.setpos
setpos(m, pos) ==
    IF pos < 0 THEN Raise(m, "Error: position not in range")
    ELSE IF ~Has(m.self.headinfo, sample_count) THEN Raise(m, "KeyError")
    ELSE IF Get(m.self.headinfo, sample_count).t = "s" THEN Raise(m, "TypeError")
    ELSE IF ExceedsCount(pos, Get(m.self.headinfo, sample_count))
    THEN Raise(m, "Error: position not in range")
    ELSE [m EXCEPT !.self.soundpos = pos, !.self.data_seek_needed = 1]

\* Sphere_read.tell
tell(self) == self.soundpos

\* Sphere_read.rewind (wave.Wave_read.rewind)
rewind(m) == [m EXCEPT !.self.data_seek_needed = 1, !.self.soundpos = 0]

\* Sphere_read.getparams
rgetparams(self) == self.headinfo

\* WaveLike_read.initfp after Sphere_read.initfp returned
WaveParams(m) ==
    IF m.err # "none" THEN m
    ELSE IF ~Has(m.self.headinfo, sample_count) \/ ~Has(m.self.headinfo, sample_rate)
    THEN Raise(m, "KeyError")
    ELSE m

\* WaveLike_read(f) (wave.Wave_read.__init__): opened says that f was a path
NewWaveLike(fp, opened) ==
    CloseOnError(WaveParams(initfp([self |-> [NoReader EXCEPT !.i_opened = opened],
                                    fp |-> fp, log |-> <<>>, err |-> "none",
                                    data |-> <<>>])),
                 opened)

\* the mode argument left out, the mode attribute a path or a BytesIO lacks
None == "None"

\* open taking 'rb' for every f when no mode is passed
ModeOf_IgnoringFile(f_mode, mode) == IF mode = None THEN "rb" ELSE mode

\* "if mode is None: ..." of open
ModeOf(f_mode, mode) ==
    IF mode # None THEN mode
    ELSE IF f_mode # None THEN f_mode
    ELSE "rb"

ModeError == "Error: mode must be 'r', 'rb', 'w', or 'wb'"

\* the class open constructs for a mode, or the error it raises
ClassFor(mode, is_wavelike) ==
    IF mode \in {"r", "rb"}
    THEN IF is_wavelike THEN "WaveLike_read" ELSE "Sphere_read"
    ELSE IF mode \in {"w", "wb"} THEN "Sphere_write"
    ELSE ModeError

\* sphere.open(f, mode, is_wavelike=...), up to the constructor call
open(f_mode, mode, is_wavelike) == ClassFor(ModeOf(f_mode, mode), is_wavelike)

\* wave.Wave_read.close
rclose(m) ==
    IF m.self.i_opened
    THEN [m EXCEPT !.self.file = FALSE, !.self.i_opened = FALSE, !.fp.closed = @ + 1,
                   !.log = Append(@, IO("close", m.fp.pos, 0))]
    ELSE [m EXCEPT !.self.file = FALSE]

\* ------------------------------------------------------------- the inputs
database_id == <<"d", "a", "t", "a", "b", "a", "s", "e", "_", "i", "d">>
utterance_id == <<"u", "t", "t", "e", "r", "a", "n", "c", "e", "_", "i", "d">>
speaker_id == <<"s", "p", "e", "a", "k", "e", "r", "_", "i", "d">>
alaw == <<"a", "l", "a", "w">>

\* a string value too long for a header of HeaderSize bytes
LongText == Repeat("x", HeaderSize - 24)

\* The mappings the caller passes to setparams
ParamChoices ==
    << <<Field(channel_count, IntVal(1)), Field(sample_n_bytes, IntVal(1)),
         Field(sample_rate, IntVal(8))>>,
       <<Field(channel_count, IntVal(2)), Field(sample_n_bytes, IntVal(1)),
         Field(sample_rate, RealVal(25)), Field(sample_count, IntVal(1)),
         Field(database_id, StrVal(<<" ", "R", " ", "1">>)),
         Field(speaker_id, StrVal(<<>>))>>,
       <<Field(channel_count, IntVal(1)), Field(sample_coding, StrVal(ulaw))>>,
       <<Field(sample_n_bytes, IntVal(2)), Field(sample_coding, StrVal(alaw)),
         Field(sample_count, IntVal(2))>>,
       <<Field(database_id, StrVal(<<"a", ";", "b">>)),
         Field(utterance_id, StrVal(<<"a", " ">>))>>,
       <<Field(utterance_id, StrVal(LongText))>> >>

\* The buffers the caller passes to writeframesraw and writeframes
Payload == <<"a", "b", "c", "d", "e", "f">>
Buffers == {SubSeq(Payload, 1, k) : k \in 0..MaxBuf}

\* The modes the caller passes to open, and the mode attributes of the file
\* objects passed to it
ModeArgs ==
    {None, "r", "rb", "w", "wb", "x", "a", "b", "t", "rt", "wt", "r+", "r+b", "w+", "w+b"}
FileModes == {None, "r", "rb", "w", "wb", "rb+", "a", "x", "rt", "wt", "r+", "w+", "ab"}

\* The files the caller opens for reading: a header of SmallHeader bytes (the
\* reader takes the size from the size field), then the sample data
SmallHeader == 104
SizeText(n) == Repeat(" ", 7 - Len(NatToStr(n))) \o NatToStr(n) \o <<"\n">>
Padded(text, n) == text \o Repeat(" ", n - Len(text))
SourceFile(body, data) == Padded(Magic \o SizeText(SmallHeader) \o body, SmallHeader) \o data
EndLine == EndHead \o <<"\n">>
MonoLines ==
    EncodeField(channel_count, IntVal(1)) \o EncodeField(sample_n_bytes, IntVal(1))
        \o EncodeField(sample_count, IntVal(2))
StereoLines ==
    EncodeField(channel_count, IntVal(2)) \o EncodeField(sample_n_bytes, IntVal(1))
        \o EncodeField(sample_count, IntVal(1))
UncountedLines ==
    EncodeField(channel_count, IntVal(1)) \o EncodeField(sample_n_bytes, IntVal(1))
TwoPartLine == sample_rate \o <<" ", "8", "\n">>
BadFlagLine == sample_rate \o <<" ", "-", "x", " ", "8", "\n">>

\* 1: one channel, one byte beyond the two declared samples
\* 2: two channels, data ending in half a frame beyond the declared sample
\* 3: no sample_count in the header
\* 4: the first byte is not that of the magic; 5: an empty file
\* 6: a header block of well-formed lines and no end_head line
\* 7: the same block, padded with spaces
\* 8: a line of two words; 9: a line with an unknown type flag
\* 10: as 1, with a sample_rate and no byte beyond the declared samples
Sources ==
    << SourceFile(MonoLines \o EndLine, SubSeq(Payload, 1, 3)),
       SourceFile(StereoLines \o EndLine, SubSeq(Payload, 1, 5)),
       SourceFile(UncountedLines \o EndLine, SubSeq(Payload, 1, 2)),
       <<"X">> \o Tail(SourceFile(MonoLines \o EndLine, SubSeq(Payload, 1, 3))),
       <<>>,
       Magic \o SizeText(16 + Len(MonoLines)) \o MonoLines \o SubSeq(Payload, 1, 2),
       SourceFile(MonoLines, SubSeq(Payload, 1, 2)),
       SourceFile(TwoPartLine \o MonoLines \o EndLine, SubSeq(Payload, 1, 2)),
       SourceFile(BadFlagLine \o MonoLines \o EndLine, SubSeq(Payload, 1, 2)),
       SourceFile(MonoLines \o EncodeField(sample_rate, IntVal(8)) \o EndLine,
                  SubSeq(Payload, 1, 2)) >>

\* ---------------------------------------------------------------- the state
VARIABLES
    env,     \* how the caller opened the stream: [bypath, initpos, src]
    fp,      \* the file handle: [content, pos, closed]
    w,       \* the Sphere_write object
    r,       \* the Sphere_read object
    rstate,  \* "none", "open" (constructed), "failed" (the constructor raised)
             \* or "finalized" (the object of the failed constructor is gone)
    ret,     \* the last call: [op, arg, err, val, data, log, n]
    hist     \* what the caller has done so far

vars == <<env, fp, w, r, rstate, ret, hist>>

\* arg: the mapping passed to setparams; n: the count passed to readframes, the
\* offset the caller sought to before Sphere_read(handle), the position passed
\* to setpos, the position tell returned; err: the exception
\* raised; val: the mapping returned; data: the bytes returned; log: the calls
\* made on the file handle; cls: the class sphere.open chose
Ret(op, err, val, data, log, n) ==
    [op |-> op, arg |-> <<>>, err |-> err, val |-> val, data |-> data, log |-> log,
     n |-> n, cls |-> ""]

\* hist.given: the mappings passed to the setparams calls that returned, merged
\* hist.data: the buffers passed to the write calls that returned, joined
\* hist.nset: setparams calls that returned; hist.nwrite: write calls made;
\* hist.nok: write calls that returned; hist.raw: one of them was writeframesraw;
\* hist.framed: one of them was writeframes;
\* hist.missed: a write call failed for a missing parameter;
\* hist.late: a setparams call returned after the header was written;
\* hist.nclose, hist.nread, hist.nrclose: close, readframes, read-close calls
\* hist.ncall: calls made on a read stream opened on one of Sources
NoHist ==
    [given |-> <<>>, data |-> <<>>, nset |-> 0, nwrite |-> 0, nok |-> 0, raw |-> FALSE,
     missed |-> FALSE, late |-> FALSE, nclose |-> 0, nread |-> 0, nrclose |-> 0,
     ncall |-> 0, framed |-> FALSE]

Init ==
    /\ env \in {[bypath |-> TRUE, initpos |-> 0, src |-> 0]}
                  \cup {[bypath |-> FALSE, initpos |-> p, src |-> 0] : p \in 0..MaxInitPos}
    /\ fp = [content |-> Repeat("p", env.initpos), pos |-> env.initpos, closed |-> 0]
    /\ w = NewWriter(env.bypath)
    /\ r = NoReader
    /\ rstate = "none"
    /\ ret = Ret("open", "none", <<>>, <<>>, <<>>, 0)
    /\ hist = NoHist

\* the machine a method of the write stream starts from
WM == [self |-> w, fp |-> fp, log |-> <<>>, err |-> "none"]
\* the machine a method of the read stream starts from
RM == [self |-> r, fp |-> fp, log |-> <<>>, err |-> "none", data |-> <<>>]

MissingError ==
    {"Error: # channels not specified", "Error: # sample bytes not specified",
     "Error: sampling rate not specified"}

WDone(op, arg, m, h) ==
    /\ w' = m.self
    /\ fp' = m.fp
    /\ ret' = [Ret(op, m.err, <<>>, <<>>, m.log, 0) EXCEPT !.arg = arg]
    /\ hist' = h
    /\ UNCHANGED <<env, r, rstate>>

SetParams ==
    /\ rstate = "none"
    /\ w.file
    /\ hist.nset < MaxSetParams
    /\ \E i \in 1..Len(ParamChoices) :
         \E m \in {setparams(WM, ParamChoices[i])} :
            WDone("setparams", ParamChoices[i], m,
                  IF m.err # "none" THEN hist
                  ELSE [hist EXCEPT !.nset = @ + 1,
                                    !.given = DictUpdate(@, ParamChoices[i]),
                                    !.late = @ \/ w.headerwritten])

GetParams ==
    /\ rstate = "none"
    /\ \E g \in {getparams(w)} : ret' = Ret("getparams", g.err, g.val, <<>>, <<>>, 0)
    /\ UNCHANGED <<env, fp, w, r, rstate, hist>>

AfterWrite(m, d, israw) ==
    IF m.err # "none"
    THEN [hist EXCEPT !.nwrite = @ + 1, !.missed = @ \/ m.err \in MissingError]
    ELSE [hist EXCEPT !.nwrite = @ + 1, !.nok = @ + 1, !.data = @ \o d,
                      !.raw = @ \/ israw, !.framed = @ \/ ~israw]

WriteFramesRaw ==
    /\ rstate = "none"
    /\ hist.nwrite < MaxWrites
    /\ \E d \in Buffers :
         \E m \in {writeframesraw(WM, d)} :
            WDone("writeframesraw", <<>>, m, AfterWrite(m, d, TRUE))

WriteFrames ==
    /\ rstate = "none"
    /\ hist.nwrite < MaxWrites
    /\ \E d \in Buffers :
         \E m \in {writeframes(WM, d)} :
            WDone("writeframes", <<>>, m, AfterWrite(m, d, FALSE))

\* The caller asks for the position after a write call
WriteTell ==
    /\ rstate = "none"
    /\ ret.op \in {"writeframesraw", "writeframes"}
    /\ ret' = Ret("wtell", "none", <<>>, <<>>, <<>>, wtell(w))
    /\ UNCHANGED <<env, fp, w, r, rstate, hist>>

Close ==
    /\ rstate = "none"
    /\ hist.nclose < MaxCloses
    /\ \E m \in {close(WM)} : WDone("close", <<>>, m, [hist EXCEPT !.nclose = @ + 1])

\* The object of a constructor that raised: the caller never holds it, and it
\* keeps _file and _i_opened_the_file until its __del__ runs
Dropped(self) == [NoReader EXCEPT !.file = self.file, !.i_opened = self.i_opened]

\* The caller reads the file back once the write stream is closed:
\* sphere.open(path) on a new handle, or Sphere_read(handle) after
\* handle.seek(start)
OpenRead ==
    /\ rstate = "none"
    /\ ~w.file
    /\ ret.op = "close"
    /\ \E start \in {0, env.initpos} :
         \E m \in {NewReader(IF env.bypath
                            THEN [content |-> fp.content, pos |-> 0, closed |-> 0]
                            ELSE [fp EXCEPT !.pos = start], env.bypath)} :
            /\ rstate' = IF m.err = "none" THEN "open" ELSE "failed"
            /\ r' = IF m.err = "none" THEN m.self ELSE Dropped(m.self)
            /\ fp' = m.fp
            /\ ret' = Ret("openread", m.err, <<>>, <<>>, m.log, start)
            /\ UNCHANGED <<env, w, hist>>

\* Sphere_read.__del__ on the object of a constructor that raised
Finalize ==
    /\ rstate = "failed"
    /\ \E m \in {rclose(RM)} :
         /\ rstate' = "finalized"
         /\ r' = m.self
         /\ fp' = m.fp
         /\ ret' = Ret("del", m.err, <<>>, <<>>, m.log, 0)
         /\ UNCHANGED <<env, w, hist>>

RDone(op, m, n, h) ==
    /\ r' = m.self
    /\ fp' = m.fp
    /\ ret' = Ret(op, m.err, <<>>, m.data, m.log, n)
    /\ hist' = h
    /\ UNCHANGED <<env, w, rstate>>

ReadFrames ==
    /\ rstate = "open"
    /\ hist.nread < MaxReads
    /\ \E n \in 0..MaxBuf : \E m \in {readframes(RM, n)} :
         RDone("readframes", m, n, [hist EXCEPT !.nread = @ + 1])

ReadClose ==
    /\ rstate = "open"
    /\ hist.nrclose < MaxReadCloses
    /\ \E m \in {rclose(RM)} : RDone("rclose", m, 0, [hist EXCEPT !.nrclose = @ + 1])

Next ==
    \/ SetParams
    \/ GetParams
    \/ WriteFramesRaw
    \/ WriteFrames
    \/ WriteTell
    \/ Close
    \/ OpenRead
    \/ ReadFrames
    \/ ReadClose
    \/ Finalize

Spec == Init /\ [][Next]_vars

\* ------------------------------------------- reading the files of Sources
\* The caller holds one of Sources: a path, or a handle sought to where the
\* SPHERE file starts in it
ReadInit ==
    /\ env \in {[bypath |-> TRUE, initpos |-> 0, src |-> i] : i \in 1..Len(Sources)}
                  \cup {[bypath |-> FALSE, initpos |-> p, src |-> i] :
                            p \in 0..MaxInitPos, i \in 1..Len(Sources)}
    /\ fp = [content |-> Repeat("p", env.initpos) \o Sources[env.src],
             pos |-> env.initpos, closed |-> 0]
    /\ w = NoWriter
    /\ r = NoReader
    /\ rstate = "none"
    /\ ret = Ret("open", "none", <<>>, <<>>, <<>>, 0)
    /\ hist = NoHist

\* sphere.open(path) or Sphere_read(handle)
OpenSource ==
    /\ rstate = "none"
    /\ \E m \in {NewReader(fp, env.bypath)} :
         /\ rstate' = IF m.err = "none" THEN "open" ELSE "failed"
         /\ r' = IF m.err = "none" THEN m.self ELSE Dropped(m.self)
         /\ fp' = m.fp
         /\ ret' = Ret("openread", m.err, <<>>, <<>>, m.log, env.initpos)
         /\ UNCHANGED <<env, w, hist>>

Called == [hist EXCEPT !.ncall = @ + 1]

SetPos ==
    /\ rstate = "open"
    /\ hist.ncall < MaxCalls
    /\ \E p \in -1..MaxPos : \E m \in {setpos(RM, p)} : RDone("setpos", m, p, Called)

Tell ==
    /\ rstate = "open"
    /\ ret' = Ret("tell", "none", <<>>, <<>>, <<>>, tell(r))
    /\ UNCHANGED <<env, fp, w, r, rstate, hist>>

Rewind ==
    /\ rstate = "open"
    /\ hist.ncall < MaxCalls
    /\ \E m \in {rewind(RM)} : RDone("rewind", m, 0, Called)

ReadSource ==
    /\ rstate = "open"
    /\ hist.ncall < MaxCalls
    /\ \E n \in 0..MaxFrames : \E m \in {readframes(RM, n)} :
         RDone("readframes", m, n, Called)

ReadParams ==
    /\ rstate = "open"
    /\ ret' = Ret("getparams", "none", rgetparams(r), <<>>, <<>>, 0)
    /\ UNCHANGED <<env, fp, w, r, rstate, hist>>

CloseSource ==
    /\ rstate = "open"
    /\ hist.ncall < MaxCalls
    /\ \E m \in {rclose(RM)} : RDone("rclose", m, 0, Called)

ReadNext ==
    \/ OpenSource
    \/ SetPos
    \/ Tell
    \/ Rewind
    \/ ReadSource
    \/ ReadParams
    \/ CloseSource
    \/ Finalize

ReadSpec == ReadInit /\ [][ReadNext]_vars

\* ------------------------------------------------------- sphere.open
\* The files and arguments given to open: a valid file without sample_rate,
\* a file with bad magic, a valid file with sample_rate
OpenSources == {1, 4, 10}

\* The caller holds a path (no mode attribute) or a file object with a mode
\* attribute or none, and is about to call open(f, mode, is_wavelike=...)
OpenInit ==
    /\ env \in {[bypath |-> p, initpos |-> 0, src |-> i, f_mode |-> fm, mode |-> m,
                 is_wavelike |-> wl] :
                    p \in BOOLEAN, i \in OpenSources, fm \in FileModes, m \in ModeArgs,
                    wl \in BOOLEAN}
    /\ env.bypath => env.f_mode = None
    /\ fp = [content |-> Sources[env.src], pos |-> 0, closed |-> 0]
    /\ w = NoWriter
    /\ r = NoReader
    /\ rstate = "none"
    /\ ret = Ret("start", "none", <<>>, <<>>, <<>>, 0)
    /\ hist = NoHist

\* the constructor open calls for a class; builtins.open(path, 'wb') empties
\* the file
Construct(cls) ==
    CASE cls = "Sphere_read" -> NewReader(fp, env.bypath)
      [] cls = "WaveLike_read" -> NewWaveLike(fp, env.bypath)
      [] cls = "Sphere_write" ->
             [self |-> NoReader, err |-> "none", log |-> <<>>, data |-> <<>>,
              fp |-> IF env.bypath THEN [content |-> <<>>, pos |-> 0, closed |-> 0]
                     ELSE fp]
      [] OTHER -> [self |-> NoReader, err |-> cls, log |-> <<>>, data |-> <<>>, fp |-> fp]

Returned(cls, m) ==
    /\ ret' = [Ret("sphere.open", m.err, <<>>, <<>>, m.log, 0) EXCEPT !.cls = cls]
    /\ fp' = m.fp
    /\ w' = IF cls = "Sphere_write" THEN NewWriter(env.bypath) ELSE w
    /\ r' = IF cls \notin {"Sphere_read", "WaveLike_read"} THEN r
            ELSE IF m.err = "none" THEN m.self ELSE Dropped(m.self)
    /\ rstate' = IF cls \notin {"Sphere_read", "WaveLike_read"} THEN rstate
                 ELSE IF m.err = "none" THEN "open" ELSE "failed"
    /\ UNCHANGED <<env, hist>>

Open ==
    /\ ret.op = "start"
    /\ \E cls \in {open(env.f_mode, env.mode, env.is_wavelike)} :
         \E m \in {Construct(cls)} : Returned(cls, m)

OpenNext ==
    \/ Open
    \/ Finalize

OpenSpec == OpenInit /\ [][OpenNext]_vars

\* ------------------------------------------------------------ properties
\* The stream a caller gets from sphere.open on a file holding content
Reopened(content) == NewReader([content |-> content, pos |-> 0, closed |-> 0], TRUE)

\* The parameters of the write stream are complete
Complete(info) ==
    Has(info, channel_count) /\ Has(info, sample_n_bytes) /\ ~RateMissing(info)

\* The running call re-serialized the header: it sought to offset 0
Patched(log) == \E i \in 1..Len(log) : log[i] = IO("seek", 0, 0)

WriteOps == {"writeframesraw", "writeframes"}

\* C1: with channel_count, sample_n_bytes and sample_rate given and no
\* sample_count, once the write calls and Close have returned, the header at the
\* start of the sink declares sample_count = bytes written / frame size, and
\* that is what a reader of the sink is given.
C1_DeferredPatch ==
    ( /\ ret.op = "close" /\ ret.err = "none" /\ hist.nclose = 1
      /\ env.initpos = 0
      /\ hist.nok = hist.nwrite
      /\ Has(hist.given, channel_count) /\ Has(hist.given, sample_n_bytes)
      /\ Has(hist.given, sample_rate) /\ ~Has(hist.given, sample_count) )
    => \E rd \in {Reopened(fp.content)} :
          /\ rd.err = "none"
          /\ IntOf(rd.self.headinfo, sample_count)
                 = w.datawritten \div FrameSize(w.headinfo)

\* C2: when the header is written and the bytes written differ from the length
\* the declared sample_count implies, then on return from WriteFrames and from
\* Close the header on the sink has been re-serialized with
\* sample_count = bytes written / frame size.
C2_Reconciled ==
    ( /\ ret.op \in {"writeframes", "close"} /\ ret.err = "none"
      /\ env.initpos = 0
      /\ w.headerwritten
      /\ Has(hist.given, sample_count)
      /\ IntOf(hist.given, sample_count) * FrameSize(w.headinfo) # w.datawritten )
    => /\ Patched(ret.log)
       /\ \E rd \in {Reopened(fp.content)} :
             /\ rd.err = "none"
             /\ IntOf(rd.self.headinfo, sample_count)
                    = w.datawritten \div FrameSize(w.headinfo)

\* A string the field codec carries unchanged: no comment mark, no line break,
\* no trailing white space
CleanString(v) ==
    /\ \A i \in 1..Len(v) : v[i] \notin {";", "\n", "\r"}
    /\ (v = <<>> \/ v[Len(v)] \notin Whitespace)

RECURSIVE FieldBytes(_, _)
FieldBytes(info, i) ==
    IF i > Len(info) THEN 0
    ELSE Len(EncodeField(info[i].name, info[i].val)) + FieldBytes(info, i + 1)

\* magic, size field, field lines and trailer fit in the header block
HeaderFits(info) ==
    Len(Magic) + Len(SizeField) + FieldBytes(info, 1) + Len(Trailer) <= HeaderSize

\* The caller has done SetParams, one WriteFrames that returned, Close and
\* OpenRead, for a mapping with the three required keys and a buffer of whole
\* frames
RoundTripDone ==
    /\ rstate # "none"
    /\ env.initpos = 0
    /\ hist.nwrite = 1 /\ hist.nok = 1 /\ ~hist.raw /\ ~hist.late
    /\ Has(hist.given, channel_count) /\ Has(hist.given, sample_n_bytes)
    /\ Has(hist.given, sample_rate)
    /\ IntOf(hist.given, channel_count) > 0 /\ IntOf(hist.given, sample_n_bytes) > 0
    /\ Len(hist.data) % FrameSize(hist.given) = 0

\* The reader returns the mapping and, asked for sample_count frames, the data
RoundTripSame ==
    /\ rstate = "open"
    /\ SameMapping(r.headinfo, hist.given)
    /\ ( /\ ret.op = "readframes" /\ hist.nrclose = 0
         /\ Has(r.headinfo, sample_count)
         /\ ret.n = IntOf(r.headinfo, sample_count) )
       => (ret.err = "none" /\ ret.data = hist.data)

\* C3 as stated: for every mapping h with channel_count, sample_n_bytes and
\* sample_rate and every buffer d of whole frames, SetParams(h), WriteFrames(d),
\* Close, OpenRead gives back h as a mapping and d.
C3_RoundTrip == RoundTripDone => RoundTripSame

\* The mapping declares the sample_count of the buffer, its strings are clean
\* and its header fits
RoundTripDeclared ==
    /\ RoundTripDone
    /\ Has(hist.given, sample_count)
    /\ Get(hist.given, sample_count) = IntVal(Len(hist.data) \div FrameSize(hist.given))
    /\ \A i \in 1..Len(hist.given) : CleanString(hist.given[i].val.s)
    /\ HeaderFits(hist.given)

\* C3 amended: the round trip gives back h and d when h also declares
\* sample_count = len(d) / frame size, its strings hold no ';', no line break
\* and no trailing white space, and its header fits in 1024 bytes, the sink
\* starting empty at offset 0.
C3_RoundTripDeclared == RoundTripDeclared => RoundTripSame

C3_Witness ==
    /\ RoundTripDeclared
    /\ ret.op = "readframes" /\ ret.err = "none"
    /\ ret.n = IntOf(hist.given, sample_count)
    /\ ret.data = hist.data /\ Len(hist.data) > 0
    /\ \E i \in 1..Len(hist.given) : hist.given[i].val.t = "s" /\ hist.given[i].val.s # <<>>
    /\ \E i \in 1..Len(hist.given) : hist.given[i].val.t = "r"

\* The text of a value, and the line the format gives a field:
\* "name -i value", "name -r value", "name -sLEN value"
ValueText(val) ==
    CASE val.t = "i" -> FormatInt(val.n)
      [] val.t = "r" -> FormatReal(val.n)
      [] val.t = "s" -> val.s

HeaderLine(f) ==
    f.name \o <<" ", "-", f.val.t>>
           \o (IF f.val.t = "s" THEN NatToStr(Len(f.val.s)) ELSE <<>>)
           \o <<" ">> \o ValueText(f.val) \o <<"\n">>

RECURSIVE HeaderLines(_, _)
HeaderLines(info, i) ==
    IF i > Len(info) THEN <<>> ELSE HeaderLine(info[i]) \o HeaderLines(info, i + 1)

\* magic, size field, one line per field in the mapping's order, trailer
HeaderText(info) ==
    <<"N", "I", "S", "T", "_", "1", "A", "\n", " ", " ", " ", "1", "0", "2", "4", "\n">>
        \o HeaderLines(info, 1)
        \o <<"e", "n", "d", "_", "h", "e", "a", "d", "\n", "\n", "\n", "\n", "\n">>

\* content holds text from offset start, then spaces up to offset HeaderSize
LaidOutAt(content, start, text) ==
    /\ SubSeq(content, start + 1, start + Len(text)) = text
    /\ \A j \in (start + Len(text) + 1)..HeaderSize : content[j] = " "

\* The step is a write call or Close that returned having emitted the header,
\* for the first time or again from offset 0
EmitsHeader ==
    /\ ret'.op \in WriteOps \cup {"close"}
    /\ ret'.err = "none"
    /\ Patched(ret'.log) \/ (~w.headerwritten /\ w'.headerwritten)

C4_Step ==
    /\ EmitsHeader =>
           LaidOutAt(fp'.content, IF Patched(ret'.log) THEN 0 ELSE fp.pos,
                     HeaderText(w'.headinfo))
    /\ (ret'.op = "setparams" /\ ret'.err = "none") =>
           \A i \in 1..Len(w.headinfo) :
              /\ w'.headinfo[i].name = w.headinfo[i].name
              /\ Has(ret'.arg, w.headinfo[i].name) =>
                     w'.headinfo[i].val = Get(ret'.arg, w.headinfo[i].name)

\* C4: the header the write stream emits is the magic, the size field, one
\* line per field of the mapping in insertion order in the format of its type,
\* the trailer, then spaces; a key set again by a later SetParams keeps its
\* position and takes the new value.
C4_HeaderExact == [][C4_Step]_vars

\* sample_n_bytes, set first and set again, heads the header with its new value
C4_Witness ==
    /\ ret.op \in WriteOps /\ ret.err = "none" /\ w.headerwritten
    /\ hist.nset = 2
    /\ Len(w.headinfo) = 5
    /\ w.headinfo[1] = Field(sample_n_bytes, IntVal(1))
    /\ Has(w.headinfo, sample_coding)
    /\ LaidOutAt(fp.content, env.initpos, HeaderText(w.headinfo))

\* The offset at which the header block emitted first by the call ends: the
\* end of the write that follows the call's first tell
FirstTell(log) == SetMin({i \in 1..Len(log) : log[i].op = "tell"})
HeaderEnd(log) == log[FirstTell(log) + 1].at + log[FirstTell(log) + 1].n

C5_Step ==
    ( /\ ret'.op \in WriteOps \cup {"close"}
      /\ ret'.err = "none"
      /\ ~w.headerwritten /\ w'.headerwritten )
    => HeaderEnd(ret'.log) = fp.pos + HeaderSize

\* C5: whatever mapping the write path accepts and wherever the sink stands
\* when the header is first emitted, the header block occupies exactly 1024
\* bytes, so data starts 1024 bytes after the first header byte; a mapping that
\* does not fit is not silently written as a longer header.
C5_FixedSize == [][C5_Step]_vars

\* C6: GetParams on a write stream fails whenever channel_count is missing,
\* whenever sample_n_bytes is missing, and whenever sample_rate is missing while
\* sample_coding is absent, 'pcm' or 'ulaw'; otherwise it returns the mapping.
C6_GetParams ==
    ret.op = "getparams" =>
        IF Complete(w.headinfo)
        THEN ret.err = "none" /\ ret.val = w.headinfo
        ELSE ret.err = "Error: not all parameters set"

\* The error the first write call raises for a mapping, "none" if it is complete
MissingFor(info) ==
    IF ~Has(info, channel_count) THEN "Error: # channels not specified"
    ELSE IF ~Has(info, sample_n_bytes) THEN "Error: # sample bytes not specified"
    ELSE IF RateMissing(info) THEN "Error: sampling rate not specified"
    ELSE "none"

C7_Step ==
    ( /\ ret'.op \in WriteOps
      /\ w.file /\ ~w.headerwritten )
    => /\ ret'.err = MissingFor(w.headinfo)
       /\ ret'.err # "none" => (fp' = fp /\ ret'.log = <<>> /\ ~w'.headerwritten)

\* C7: a write call on a stream whose header is not yet written fails with the
\* error of the first missing parameter (channel_count, sample_n_bytes, then
\* sample_rate when sample_coding is absent, pcm or ulaw) before any byte is
\* written: sink content and position are unchanged and header_written stays
\* false; once SetParams has supplied what was missing, the retried call
\* succeeds.
C7_MissingParams == [][C7_Step]_vars

\* a write call returned with data written after an earlier one failed for a
\* missing parameter and a SetParams supplied it
C7_Witness ==
    /\ hist.missed
    /\ hist.nset = 2
    /\ ret.op = "writeframesraw" /\ ret.err = "none"
    /\ w.headerwritten /\ w.datawritten > 0

\* new holds the keys of old and of params, each with the value params gives
\* it, or else the value it had in old
Merged(old, params, new) ==
    /\ \A i \in 1..Len(new) : \A j \in 1..Len(new) : new[i].name = new[j].name => i = j
    /\ \A i \in 1..Len(old) : Has(new, old[i].name)
    /\ \A i \in 1..Len(params) : Has(new, params[i].name)
    /\ \A i \in 1..Len(new) :
          IF Has(params, new[i].name) THEN new[i].val = Get(params, new[i].name)
          ELSE Has(old, new[i].name) /\ new[i].val = Get(old, new[i].name)

C8_Step ==
    ret'.op = "setparams" =>
        IF w.datawritten > 0
        THEN /\ ret'.err = "Error: cannot change parameters after starting to write"
             /\ w'.headinfo = w.headinfo
        ELSE /\ ret'.err = "none"
             /\ Merged(w.headinfo, ret'.arg, w'.headinfo)

\* C8: SetParams fails with AlreadyWriting, the mapping unchanged, if and only
\* if at least one data byte has been written; otherwise it merges the given
\* mapping into the parameters, the given value winning for each key it names
\* and the other keys keeping theirs.
C8_SetParams == [][C8_Step]_vars

\* SetParams has just been refused on a stream that had merged a mapping and
\* then written data
C8_Witness ==
    /\ ret.op = "setparams"
    /\ ret.err = "Error: cannot change parameters after starting to write"
    /\ hist.nset >= 1 /\ w.datawritten > 0

\* The sample_count declared by the header that starts at offset start
DeclaredAt(content, start) ==
    NewReader([content |-> content, pos |-> start, closed |-> 0], TRUE).self.headinfo

C9_Step ==
    ( /\ ret'.op = "close"
      /\ w.file /\ ~w.headerwritten /\ hist.nwrite = 0
      /\ Complete(w.headinfo) )
    => /\ ret'.err = "none"
       /\ w'.headerwritten /\ w'.datawritten = 0
       /\ \E info \in {DeclaredAt(fp'.content, fp.pos)} :
             Has(info, sample_count) /\ Get(info, sample_count) = IntVal(0)
       /\ fp'.content = close(writeframesraw(WM, <<>>)).fp.content

\* C9: Close on a write stream with complete parameters and no write call made
\* emits a header declaring sample_count 0 and no data, and leaves on the sink
\* the bytes that WriteFramesRaw(empty) then Close would leave.
C9_CloseUnwritten == [][C9_Step]_vars

C10_Step ==
    /\ (ret'.op = "close" /\ hist.nclose >= 1) =>
           (ret'.err = "none" /\ ret'.log = <<>> /\ fp' = fp)
    /\ (ret'.op = "rclose" /\ hist.nrclose >= 1) =>
           (ret'.err = "none" /\ ret'.log = <<>> /\ fp' = fp)

\* C10: on a write stream and on a read stream a second or later Close raises
\* nothing, makes no call on the file handle and leaves the handle and its
\* content as they were, whether or not the first Close raised.
C10_IdempotentClose == [][C10_Step]_vars

\* both streams have been closed twice
C10_Witness ==
    /\ hist.nclose = 2 /\ hist.nrclose = 2
    /\ ret.op = "rclose" /\ ret.err = "none" /\ ret.log = <<>>
    /\ ~r.file /\ ~w.file

\* ---------------------------------------------------------------- C11
\* the header of the read stream declares an integer sample_count
Counted(self) ==
    Has(self.headinfo, sample_count) /\ Get(self.headinfo, sample_count).t = "i"

OutOfRange == "Error: position not in range"

C11_Step ==
    (ret'.op = "setpos" /\ Counted(r)) =>
        /\ ret'.log = <<>>
        /\ fp' = fp
        /\ IF ret'.n < 0 \/ ret'.n > IntOf(r.headinfo, sample_count)
           THEN ret'.err = OutOfRange /\ r' = r
           ELSE /\ ret'.err = "none"
                /\ r' = [r EXCEPT !.soundpos = ret'.n, !.data_seek_needed = 1]

\* C11: on a read stream whose header declares an integer sample_count,
\* setpos(p) raises Error('position not in range') exactly when p < 0 or
\* p > sample_count and then changes nothing; otherwise it sets the position
\* to p and the reseek flag, and in both cases makes no call on the file
C11_SetPos == [][C11_Step]_vars

\* setpos(p) with p > 0 returned after a read had cleared the reseek flag
C11_Witness ==
    /\ ret.op = "setpos"
    /\ ret.err = "none"
    /\ ret.n > 0
    /\ r.soundpos = ret.n
    /\ r.data_seek_needed = 1
    /\ hist.ncall >= 2

\* ---------------------------------------------------------------- C12
\* setpos(sample_count) was the last call to move the position
AtDeclaredEnd(self) ==
    /\ Counted(self)
    /\ self.file
    /\ self.data_seek_needed = 1
    /\ self.soundpos = IntOf(self.headinfo, sample_count)
    /\ self.soundpos > 0

C12_Step ==
    (ret'.op = "readframes" /\ AtDeclaredEnd(r)) =>
        /\ ret'.err = "none"
        /\ ret'.data = <<>>
        /\ tell(r') = IntOf(r.headinfo, sample_count)

\* C12: after setpos(sample_count), readframes(n) returns no bytes for every
\* n, whatever the file holds after the declared samples, and tell() still
\* returns sample_count
C12_ReadAtEnd == [][C12_Step]_vars

\* ---------------------------------------------------------------- C13
SeeksOf(log) == SelectSeq(log, LAMBDA e : e.op = "seek")
StartsWithLog(log, calls) ==
    Len(log) >= Len(calls) /\ SubSeq(log, 1, Len(calls)) = calls

\* tell() right after setpos(p) returned
TellAfterSetPos ==
    (ret.op = "setpos" /\ ret.err = "none" /\ ret'.op = "tell") =>
        ret'.n = ret.n /\ ret'.log = <<>> /\ fp' = fp

\* a readframes call with no reseek pending
NoSeekWhenClear ==
    (ret'.op = "readframes" /\ r.file /\ r.data_seek_needed = 0) =>
        SeeksOf(ret'.log) = <<>>

OneSeek(self) == <<IO("seek", self.offset + self.soundpos * self.framesize, 0)>>

C13_Step ==
    /\ TellAfterSetPos
    /\ NoSeekWhenClear
    /\ (ret'.op = "readframes" /\ r.file /\ r.data_seek_needed = 1) =>
           /\ SeeksOf(ret'.log) = OneSeek(r)
           /\ StartsWithLog(ret'.log, OneSeek(r))

\* C13: setpos(p) then tell() returns p and makes no call on the file; the
\* next readframes makes exactly one seek, to offset + p * framesize, before
\* it reads; the readframes calls after it, with no setpos or rewind between,
\* make no seek
C13_OneSeek == [][C13_Step]_vars

\* the seeks of readframes when a reseek is pending: one to the start of the
\* data and, for a position other than 0, one relative seek from there
DataSeeks(self) ==
    IF self.soundpos * self.framesize = 0 THEN <<IO("seek", self.offset, 0)>>
    ELSE <<IO("seek", self.offset, 0),
           IO("seek", self.offset + self.soundpos * self.framesize, 1)>>

C13_AmendedStep ==
    /\ TellAfterSetPos
    /\ NoSeekWhenClear
    /\ (ret'.op = "readframes" /\ r.file /\ r.data_seek_needed = 1) =>
           /\ SeeksOf(ret'.log) = DataSeeks(r)
           /\ StartsWithLog(ret'.log, DataSeeks(r))
           /\ r'.data_seek_needed = 0

\* C13 (amended): setpos(p) then tell() returns p and makes no call on the
\* file; the next readframes brings the file to offset + p * framesize before
\* it reads, by a seek to offset and, when p > 0, a relative seek of
\* p * framesize; the readframes calls after it, with no setpos or rewind
\* between, make no seek
C13_PositionSeeks == [][C13_AmendedStep]_vars

\* a readframes call at a position p > 0 with a reseek pending made its two
\* seeks and read data, after at least two earlier calls on the stream
C13_Witness ==
    /\ ret.op = "readframes"
    /\ ret.err = "none"
    /\ Len(SeeksOf(ret.log)) = 2
    /\ ret.data # <<>>
    /\ hist.ncall >= 3

\* ---------------------------------------------------------------- C14
\* where the sample data starts: header_size bytes after the start of the file
DataStart == env.initpos + SmallHeader

\* the bytes of the file from the frame at position pos, n frames at most
FramesAt(self, pos, n) ==
    SubSeq(fp.content, DataStart + pos * self.framesize + 1,
           Min(DataStart + (pos + n) * self.framesize, Len(fp.content)))

C14_Step ==
    (ret'.op = "readframes" /\ r.file) =>
        /\ ret'.err = "none"
        /\ ret'.data = FramesAt(r, r.soundpos, ret'.n)
        /\ r'.soundpos = r.soundpos + Len(ret'.data) \div r.framesize
        /\ ret'.n = 0 => ret'.data = <<>> /\ r'.soundpos = r.soundpos

\* C14: on a little-endian host readframes(n) at position p returns the bytes
\* of the file from header_size + p * framesize, n * framesize of them or
\* those left before the end of the file, raises nothing and advances the
\* position by len(data) // framesize; readframes(0) returns b'' and leaves
\* the position as it was
C14_ReadFrames == [][C14_Step]_vars

\* ---------------------------------------------------------------- C15
\* the file the caller opens, from where the handle stands
SourceBytes == Sources[env.src]

BadMagic == Len(SourceBytes) < 8 \/ SubSeq(SourceBytes, 1, 8) # Magic

\* the size field that follows the magic holds an integer of 16 or more
ValidSizeField ==
    /\ Len(SourceBytes) >= 16
    /\ PyInt(SubSeq(SourceBytes, 9, 16)).ok
    /\ PyInt(SubSeq(SourceBytes, 9, 16)).v >= 16

\* the header block: the header_size - 16 bytes after the size field
HeaderBlock ==
    SubSeq(SourceBytes, 17, Min(Len(SourceBytes), PyInt(SubSeq(SourceBytes, 9, 16)).v))

LineBreak == {"\n", "\r"}

\* some line of the block is end_head
HasEndHeadLine(block) ==
    \E i \in 1..Len(block) :
        /\ i + Len(EndHead) - 1 <= Len(block)
        /\ SubSeq(block, i, i + Len(EndHead) - 1) = EndHead
        /\ i = 1 \/ block[i - 1] \in LineBreak
        /\ i + Len(EndHead) > Len(block) \/ block[i + Len(EndHead)] \in LineBreak

\* the exceptions of class sphere.Error that the constructor raises
OpenErrors ==
    {"Error: file does not start with NIST_1A id", "Error: header chunk missing"}

Headless == ~BadMagic /\ ValidSizeField /\ ~HasEndHeadLine(HeaderBlock)

C15_Step ==
    (ret'.op = "openread" /\ (BadMagic \/ Headless)) =>
        ret'.err \in OpenErrors /\ rstate' = "failed"

\* C15: opening a file whose first 8 bytes are not the magic, or whose magic
\* and size field are valid and whose header block has no end_head line,
\* raises sphere.Error and returns no stream
C15_OpenFails == [][C15_Step]_vars

\* ---------------------------------------------------------------- C16
\* the line of the block that starts at i, without its line break
LineStop(block, i) == SetMin({j \in i..Len(block) : block[j] \in LineBreak} \cup {Len(block) + 1})
LineAt(block, i) == SubSeq(block, i, LineStop(block, i) - 1)
LineStarts(block) == {i \in 1..Len(block) : i = 1 \/ block[i - 1] \in LineBreak}

\* where the first end_head line of the block starts
EndHeadAt(block) ==
    SetMin({i \in LineStarts(block) : LineAt(block, i) = EndHead} \cup {Len(block) + 1})

\* a line without its comment, and the places of its spaces
Uncommented(line) ==
    SubSeq(line, 1, SetMin({k \in 1..Len(line) : line[k] = ";"} \cup {Len(line) + 1}) - 1)
SpacesOf(line) == {k \in 1..Len(line) : line[k] = " "}

\* 'name type value': two spaces at least
ThreeWords(line) == Cardinality(SpacesOf(Uncommented(line))) >= 2

\* the word between the first two spaces
TypeTag(line) ==
    SubSeq(line, SetMin(SpacesOf(line)) + 1,
           SetMin(SpacesOf(line) \ {SetMin(SpacesOf(line))}) - 1)

KnownTag(tag) == Len(tag) >= 2 /\ tag[1] = "-" /\ tag[2] \in {"i", "r", "s"}

IllFormed(line) == ~ThreeWords(line) \/ ~KnownTag(TypeTag(Uncommented(line)))

\* some line before the end_head line of the block is ill-formed
IllFormedHeader ==
    /\ ~BadMagic
    /\ ValidSizeField
    /\ HasEndHeadLine(HeaderBlock)
    /\ \E i \in LineStarts(HeaderBlock) :
          i < EndHeadAt(HeaderBlock) /\ IllFormed(LineAt(HeaderBlock, i))

C16_Step ==
    (ret'.op = "openread" /\ IllFormedHeader) =>
        ret'.err \in OpenErrors \cup {"Error: Invalid type flag in header"}
            /\ rstate' = "failed"

\* C16: a header line before end_head that is not 'name type value', or
\* whose type flag does not start with -i, -r or -s, makes the open raise
\* sphere.Error and no other exception
C16_FormatError == [][C16_Step]_vars

\* ---------------------------------------------------------------- C17
\* the close() calls a method made on the file handle
CloseCalls(log) == Len(SelectSeq(log, LAMBDA e : e.op = "close"))

\* after the call the handle is closed, by one close() call, the last call made
ClosedByCall ==
    /\ CloseCalls(ret'.log) = 1
    /\ ret'.log[Len(ret'.log)].op = "close"
    /\ fp'.closed = 1

\* the call made no close() call on the handle
NotClosedByCall == CloseCalls(ret'.log) = 0 /\ fp'.closed = fp.closed

\* a handle the caller passed in
CallerHandle == ~env.bypath => NotClosedByCall /\ fp'.closed = 0

\* a handle the stream opened from a path: closed by the constructor that
\* raises and by the first close; a constructor that returns leaves the new
\* handle open; the __del__ of a failed constructor's object finds the handle
\* closed; no other call closes it
OwnHandle ==
    env.bypath =>
        CASE ret'.op = "openread" ->
                 IF ret'.err # "none" THEN ClosedByCall
                 ELSE CloseCalls(ret'.log) = 0 /\ fp'.closed = 0
          [] ret'.op = "close" -> IF hist.nclose = 0 THEN ClosedByCall ELSE NotClosedByCall
          [] ret'.op = "rclose" -> IF hist.nrclose = 0 THEN ClosedByCall ELSE NotClosedByCall
          [] ret'.op = "del" -> fp.closed = 1 /\ fp'.content = fp.content
          [] OTHER -> NotClosedByCall

C17_Step == CallerHandle /\ OwnHandle

GivenMode ==
    IF env.mode # None THEN env.mode
    ELSE IF env.f_mode # None THEN env.f_mode
    ELSE "rb"

\* open returned a stream of class cls, or the constructor of cls raised
Made(cls) ==
    /\ ret.cls = cls
    /\ ret.err # ModeError
    /\ IF cls = "Sphere_write" THEN ret.err = "none" /\ w.file /\ rstate = "none"
       ELSE ~w.file /\ rstate = (IF ret.err = "none" THEN "open" ELSE "failed")

\* C18: open(f, mode) makes a read stream for 'r' and 'rb' (WaveLike_read when
\* is_wavelike, Sphere_read otherwise), a write stream for 'w' and 'wb', and
\* raises Error for every other mode; with no mode passed it goes by f.mode
\* when f has one and by 'rb' otherwise
C18_OpenMode ==
    ret.op = "sphere.open" =>
        CASE GivenMode \in {"r", "rb"} ->
                 Made(IF env.is_wavelike THEN "WaveLike_read" ELSE "Sphere_read")
          [] GivenMode \in {"w", "wb"} -> Made("Sphere_write")
          [] OTHER -> /\ ret.err = ModeError
                      /\ ~w.file /\ rstate = "none"
                      /\ ret.log = <<>>
                      /\ fp = [content |-> Sources[env.src], pos |-> 0, closed |-> 0]

\* open(f) with no mode, on a file object opened in mode 'rb+', raised Error
C18_Witness ==
    /\ ret.op = "sphere.open"
    /\ env.mode = None
    /\ env.f_mode = "rb+"
    /\ ret.err = ModeError

\* ---------------------------------------------------------------- C19
WritesOf(log) == SelectSeq(log, LAMBDA e : e.op = "write")

\* The first close of a write stream whose caller declared sample_count and
\* made only writeframesraw calls, the bytes written being those declared
CloseAsDeclared ==
    /\ ret'.op = "close"
    /\ w.file
    /\ Complete(hist.given)
    /\ Has(hist.given, sample_count)
    /\ ~hist.framed
    /\ w.datawritten = IntOf(hist.given, sample_count) * FrameSize(hist.given)

\* close made no seek, and no write if the header was written before it
NoRewrite ==
    /\ SeeksOf(ret'.log) = <<>>
    /\ w.headerwritten => WritesOf(ret'.log) = <<>>

\* the data length the header declares when close finds or writes it
DeclaredLength ==
    IF w.headerwritten THEN w.datalength
    ELSE IF Has(hist.given, sample_count)
    THEN IntOf(hist.given, sample_count) * FrameSize(hist.given)
    ELSE 0

\* close re-writes the header only when the bytes written differ from it
RewriteOnlyOnMismatch ==
    (ret'.op = "close" /\ Patched(ret'.log)) => w.datawritten # DeclaredLength

C19_Step == (CloseAsDeclared => NoRewrite) /\ RewriteOnlyOnMismatch

\* C19: when sample_count was declared and the bytes written by
\* writeframesraw are sample_count * frame size at close, close makes no seek
\* and does not write the header again; close re-writes the header only when
\* the bytes written differ from the declared data length
C19_NoNeedlessPatch == [][C19_Step]_vars

C19_AmendedStep ==
    ((CloseAsDeclared /\ ~hist.late) => NoRewrite) /\ RewriteOnlyOnMismatch

\* C19 (amended): as C19, for a stream whose parameters were not set again
\* after its header was written
C19_NoNeedlessPatchUnchanged == [][C19_AmendedStep]_vars

\* close returned without a seek on a stream that declared sample_count and
\* was given just the declared bytes by writeframesraw
C19_Witness ==
    /\ ret.op = "close"
    /\ ret.err = "none"
    /\ hist.nclose = 1
    /\ Has(hist.given, sample_count)
    /\ hist.raw /\ ~hist.framed /\ ~hist.late
    /\ w.datawritten > 0
    /\ w.datawritten = IntOf(hist.given, sample_count) * FrameSize(hist.given)
    /\ SeeksOf(ret.log) = <<>>

\* ---------------------------------------------------------------- C20
\* where the running call sought to offset 0, and the offset its tell()
\* returned just before
PatchAt(log) == SetMin({i \in 1..Len(log) : log[i] = IO("seek", 0, 0)})
BeforePatch(log) == log[PatchAt(log) - 1].at

\* after its seek to 0 the call wrote from offset 0 on and sought back last
HeaderRewritten(log) ==
    /\ PatchAt(log) > 1
    /\ log[PatchAt(log) - 1].op = "tell"
    /\ log[PatchAt(log) + 1] = IO("write", 0, Len(Magic) + Len(SizeField))
    /\ \E j \in (PatchAt(log) + 1)..Len(log) :
          /\ log[j] = IO("seek", BeforePatch(log), 0)
          /\ \A k \in (PatchAt(log) + 1)..(j - 1) : log[k].op \in {"write", "tell"}
          /\ \A k \in (j + 1)..Len(log) : log[k].op \notin {"seek", "write"}

C20_Step ==
    (ret'.op \in {"writeframes", "close"} /\ ret'.err = "none" /\ Patched(ret'.log)) =>
        /\ HeaderRewritten(ret'.log)
        /\ fp'.pos = BeforePatch(ret'.log)
        /\ SubSeq(fp'.content, fp'.pos - Len(hist'.data) + 1, fp'.pos) = hist'.data

\* C20: a patch made by writeframes or close seeks to offset 0, writes the
\* header again and seeks back: the sink is left at the offset it had before
\* the patch, and the data bytes written after the header are unchanged
C20_PatchConfined == [][C20_Step]_vars

\* ---------------------------------------------------------------- C21
\* the call raised and made no read, write or seek on the file handle
Refused ==
    /\ ret'.err # "none"
    /\ \A i \in 1..Len(ret'.log) : ret'.log[i].op \notin {"read", "write", "seek"}
    /\ fp' = fp

C21_Step ==
    /\ (ret'.op \in WriteOps /\ hist.nclose >= 1) => Refused
    /\ (ret'.op = "readframes" /\ hist.nrclose >= 1) => Refused

\* C21: once close has been called on a stream, no later writeframesraw or
\* writeframes (write stream) or readframes (read stream) returns, and none
\* of them reads from, writes to or seeks the file handle
C21_SingleUse == [][C21_Step]_vars

\* ---------------------------------------------------------------- C22
\* what a reader decodes from the start of the sink
OnSink == Reopened(fp.content)

\* a mapping the header codec carries unchanged, in a header that fits
Carried(info) ==
    /\ HeaderFits(info)
    /\ \A i \in 1..Len(info) : info[i].val.t = "s" => CleanString(info[i].val.s)

\* C22: in every state of a write stream opened on a sink at offset 0 whose
\* header is written, the header on the sink decodes to the stream's
\* parameter mapping (one the codec carries unchanged); a setparams call made
\* after the header was written is matched by a rewritten header once close
\* has returned
C22_HeaderMatches ==
    ( /\ w.headerwritten
      /\ env.initpos = 0
      /\ Carried(w.headinfo)
      /\ ~hist.late \/ (ret.op = "close" /\ ret.err = "none") ) =>
        \E rd \in {OnSink} :
            rd.err = "none" /\ SameMapping(rd.self.headinfo, w.headinfo)

\* ---------------------------------------------------------------- C23
\* the sink as the caller handed it over
FreshSink == [content |-> Repeat("p", env.initpos), pos |-> env.initpos, closed |-> 0]

\* the sink left by a stream given the mapping info and then the buffer data,
\* with no call made before them
FirstWrite(info, data) ==
    writeframesraw([self |-> [NewWriter(env.bypath) EXCEPT !.headinfo = info],
                    fp |-> FreshSink, log |-> <<>>, err |-> "none"], data).fp.content

\* a writeframesraw call that fails for a missing parameter changes nothing
FailedWriteKeeps ==
    (ret'.op = "writeframesraw" /\ ret'.err \in MissingError) => w' = w /\ fp' = fp

\* the first write call to return, made after one that failed, leaves the
\* bytes it would have left had the failed call not been made
RetryAsFirst ==
    ( /\ ret'.op = "writeframesraw" /\ ret'.err = "none"
      /\ hist.missed /\ hist.nok = 0 /\ ~w.headerwritten )
    => fp'.content = FirstWrite(hist.given, hist'.data)

C23_Step == FailedWriteKeeps /\ RetryAsFirst

\* C23: a writeframesraw call that fails for a missing parameter leaves the
\* write stream as it was (mapping and its key order, bytes written, frames
\* written, declared data length, header written), so that setparams with
\* the missing parameters and a retry leave the bytes that the same calls
\* leave when the failed call is not made
C23_FailedWrite == [][C23_Step]_vars

\* ---------------------------------------------------------------- C24
\* every write call made so far returned
AllWritten == hist.nwrite >= 1 /\ hist.nok = hist.nwrite

C24_Step ==
    /\ w'.datawritten >= w.datawritten
    /\ w'.nframeswritten >= w.nframeswritten
    /\ (ret'.op \in WriteOps /\ ret'.err = "none" /\ hist.nok = hist.nwrite) =>
           w'.datawritten = Len(hist'.data)
    /\ (ret'.op = "wtell" /\ AllWritten) =>
           ret'.n = w.datawritten \div FrameSize(w.headinfo)

\* C24: over write calls that all return, the bytes written and the frames
\* written never decrease, the bytes written are the total length of the
\* buffers passed, and tell() is the bytes written divided by the frame size
\* (integer division), also for buffers that are not whole frames
C24_WriteCounters == [][C24_Step]_vars

====
